---- MODULE Spec2Model ----
(***************************************************************************)
(* The ETF portfolio pipeline of main.py as a state machine:               *)
(*   read_and_normalize_portfolio -> fetch_and_enrich_etf_data (one step   *)
(*   per portfolio row) -> save_enriched_portfolio -> predict_portfolio    *)
(*   (one step per row) -> save_predictions -> visualize_statistics.       *)
(* An uncaught Python exception ends the run (pc = "aborted").             *)
(*                                                                         *)
(* Prices are integers (a price unit small enough that every amount is     *)
(* whole); NaN is the one non-number.  A normalized weight is an exact     *)
(* fraction.  A horizon is an exact fraction of a year whose denominator   *)
(* is a power of two, so that y * 365 is exact in binary floating point    *)
(* and int() and round() act on the exact value.                           *)
(***************************************************************************)
EXTENDS Integers, Sequences, FiniteSets, TLC

\* ------------------------------------------------------------------ bounds
\* Largest holdings table (number of rows of the portfolio CSV).
MaxRows == 3

\* ------------------------------------------------------- program constants
\* int(years * 365), int(y * 365): daily periods per year.
DaysPerYear == 365
\* seasonal_order=(1, 1, 1, 12): the seasonal period of the SARIMA model.
SeasonalPeriod == 12
\* rolling(window=50)
MAWindow == 50

\* float('nan'): the result of an undefined mean or deviation, a missing cell.
NaN == -1

\* ------------------------------------------------------------- the inputs
Symbols == {"AAA", "BBB", "CCC"}
Quantities == {1, 2}
\* Weight cells a holdings table may hold.
Weights == {-1, 0, 1, 2}

\* A horizon in years, num/den.
Yr(n, d) == [num |-> n, den |-> d]
HorizonLess(a, b) == a.num * b.den < b.num * a.den
\* The YEARS_TO_PREDICT lists tried: the program's own [1, 5]; [0.75, 5], with
\* a horizon that is no whole number of years; [1/512, 1], with a horizon
\* shorter than a day.
YearsLists ==
    { << Yr(1, 1), Yr(5, 1) >>, << Yr(3, 4), Yr(5, 1) >>, << Yr(1, 512), Yr(1, 1) >> }

\* ------------------------------------------- the market data service (yfinance)
\* etf.info.get('currency', 'USD') of each instrument.
InfoCurrency(ticker) == IF ticker = "BBB" THEN "EUR" ELSE "USD"
\* etf.info.get('expenseRatio', 0), in basis points.
InfoExpenseRatio(ticker) == IF ticker = "CCC" THEN 0 ELSE 7

\* A Close series: n observations (after the daily resampling too), its last
\* value, the mean of its trailing 50 values and its annualized volatility
\* (both NaN when the series is too short to define them).
MkSeries(cnt, lastv, mean, vol) ==
    [n |-> cnt, last |-> lastv,
     ma50 |-> IF cnt < MAWindow THEN NaN ELSE mean, vol |-> vol,
     index |-> "DatetimeIndex"]
EmptySeries == MkSeries(0, NaN, NaN, NaN)
\* etf.history(period='ytd')['Close'] when the service answers with data:
\* AAA and BBB have a long history, CCC has 10 observations.
History(ticker) ==
    CASE ticker = "AAA" -> MkSeries(60, 10, 9, 3)
      [] ticker = "BBB" -> MkSeries(60, 20, 18, 4)
      [] OTHER          -> MkSeries(10, 30, NaN, 5)
\* fx_data['Close'].iloc[-1] of "<currency>USD=X" when the lookup succeeds.
Rate(currency) == IF currency = "USD" THEN 1 ELSE 2

\* What one call of the service may do.
HistoryOutcomes == {"ok", "empty", "raise"}
InfoOutcomes == {"ok", "raise"}
RateOutcomes == {"ok", "fail"}
FitOutcomes == {"ok", "raise"}

\* --------------------------------------------------------------- arithmetic
\* float multiplication: NaN propagates.
Mul(a, b) == IF a = NaN \/ b = NaN THEN NaN ELSE a * b

\* ------------------------------------------------------------------ state
VARIABLES
    pc,               \* the step of __main__ the run is at
    error,            \* the exception that ended the run, "" while none
    csv_file,         \* the holdings CSV at PORTFOLIO_PATH (never written)
    years_to_predict, \* YEARS_TO_PREDICT
    years,            \* the years argument of predict_portfolio
    portfolio,        \* the portfolio DataFrame, one record per row
    etf_data,         \* the Series Store: dict ticker -> Close series
    idx,              \* the row the current iterrows() loop is at (1-based)
    enriched_csv,     \* enriched_portfolio.csv
    predictions,      \* the list of pred_dict
    predictions_csv,  \* predictions.csv (OUTPUT_PATH)
    report,           \* table_data of visualize_statistics
    rate_log          \* every spot-rate request issued (fx_exchange.history)

vars == <<pc, error, csv_file, years_to_predict, years, portfolio, etf_data,
          idx, enriched_csv, predictions, predictions_csv, report, rate_log>>

\* ------------------------------------------------------------ the CSV input
\* A Weight cell: a finite number num/den, or what a float division by zero
\* leaves (nan, inf, -inf); "absent" when the table has no Weight column.
Cell(k, n, d) == [kind |-> k, num |-> n, den |-> d]
Fin(n, d) == Cell("fin", n, d)
NoWeight == Cell("absent", 0, 1)

\* A row of the holdings CSV.
Holding(s, q, w) == [Symbol |-> s, Quantity |-> q, Weight |-> w]

RECURSIVE TablesOfLen(_, _)
TablesOfLen(k, rows) ==
    IF k = 0 THEN { <<>> }
    ELSE { Append(t, r) : t \in TablesOfLen(k - 1, rows), r \in rows }

\* Holdings tables without a Weight column.
PlainRows == { Holding(s, q, NoWeight) : s \in Symbols, q \in Quantities }
PlainTables == UNION { TablesOfLen(k, PlainRows) : k \in 0..MaxRows }
\* Holdings tables with a Weight column.
WeightedRows == { Holding("AAA", 1, Fin(w, 1)) : w \in Weights }
WeightedTables == UNION { TablesOfLen(k, WeightedRows) : k \in 0..MaxRows }


\* int(y * 365) for y >= 0: truncation.
IntPeriods(y) == (y.num * DaysPerYear) \div y.den

\* The steps a forecast is fitted with: __main__ passes max(YEARS_TO_PREDICT);
\* another caller of predict_portfolio may pass any of the horizons.
FitYears(ys) == { ys[k] : k \in { j \in DOMAIN ys : IntPeriods(ys[j]) >= 1 } }

\* ------------------------------------------- read_and_normalize_portfolio
\* 'Weight' in portfolio.columns
HasWeightColumn(table) == table # <<>> /\ table[1].Weight.kind # "absent"

\* portfolio['Weight'].sum() of the cells as read (whole numbers).
RECURSIVE WeightSum(_)
WeightSum(table) ==
    IF table = <<>> THEN 0 ELSE Head(table).Weight.num + WeightSum(Tail(table))

\* w / s in floating point: a zero divisor raises nothing, it leaves nan or
\* an infinity.
FloatDiv(w, s) ==
    IF s # 0 THEN Fin(w, s)
    ELSE IF w = 0 THEN Cell("nan", 0, 1)
    ELSE IF w > 0 THEN Cell("inf", 0, 1)
    ELSE Cell("-inf", 0, 1)

\* portfolio['Weight'] / len(portfolio): the divisor is the row count.
NormalizeWeightsByCount(table) ==
    IF HasWeightColumn(table)
    THEN [i \in DOMAIN table |->
            [table[i] EXCEPT !.Weight = FloatDiv(@.num, Len(table))]]
    ELSE table

\* portfolio['Weight'] = portfolio['Weight'] / portfolio['Weight'].sum()
NormalizeWeights(table) ==
    IF HasWeightColumn(table)
    THEN [i \in DOMAIN table |->
            [table[i] EXCEPT !.Weight = FloatDiv(@.num, WeightSum(table))]]
    ELSE table

\* pd.read_csv: one DataFrame row per CSV row, in file order.  The columns
\* fetch_and_enrich_etf_data adds later are NaN until they are assigned.
ReadCsv(table) ==
    [i \in DOMAIN table |->
        [Symbol |-> table[i].Symbol, Quantity |-> table[i].Quantity,
         Weight |-> table[i].Weight,
         Last_Close |-> NaN, Current_Price |-> NaN, MA50 |-> NaN,
         Volatility |-> NaN, Expense_Ratio |-> NaN, Currency |-> "NaN"]]

ReadAndNormalize ==
    /\ pc = "start"
    /\ portfolio' = NormalizeWeights(ReadCsv(csv_file))
    /\ pc' = "enrich"
    /\ idx' = 1
    /\ UNCHANGED <<error, csv_file, years_to_predict, years, etf_data,
                   enriched_csv, predictions, predictions_csv, report, rate_log>>

\* ---------------------------------------------- fetch_and_enrich_etf_data
\* A conversion attempted for every currency.
AlwaysConverts(currency) == TRUE

\* if currency != 'USD':
NeedsConversion(currency) == currency # "USD"

\* data['Close'].iloc[-1]: defined on a series with an observation.
HasLast(series) == series.n >= 1

\* An enrichment that converts Last_Close and leaves MA50 as it was.
EnrichedFieldsLastCloseOnly(ticker, data, currency, converted) ==
    LET rate == IF converted THEN Rate(currency) ELSE 1
    IN  [Last_Close    |-> Mul(data.last, rate),
         Current_Price |-> Mul(data.last, rate),
         MA50          |-> data.ma50,
         Volatility    |-> data.vol,
         Expense_Ratio |-> InfoExpenseRatio(ticker),
         Currency      |-> currency]

\* The six columns one iteration assigns (lines 48-78); converted says whether
\* the try block obtained the exchange rate.
EnrichedFields(ticker, data, currency, converted) ==
    LET rate == IF converted THEN Rate(currency) ELSE 1
    IN  [Last_Close    |-> Mul(data.last, rate),
         Current_Price |-> Mul(data.last, rate),
         MA50          |-> Mul(data.ma50, rate),
         Volatility    |-> data.vol,
         Expense_Ratio |-> InfoExpenseRatio(ticker),
         Currency      |-> currency]

\* portfolio.loc[portfolio['Symbol'] == ticker, <column>] = <value>
AssignBySymbol(df, ticker, f) ==
    [j \in DOMAIN df |->
        IF df[j].Symbol = ticker
        THEN [df[j] EXCEPT !.Last_Close = f.Last_Close,
                           !.Current_Price = f.Current_Price,
                           !.MA50 = f.MA50,
                           !.Volatility = f.Volatility,
                           !.Expense_Ratio = f.Expense_Ratio,
                           !.Currency = f.Currency]
        ELSE df[j]]

\* One spot-rate request, as logged.
RateRequest(stage, row, currency, fx) ==
    [stage |-> stage, row |-> row, currency |-> currency, outcome |-> fx]

\* One iteration of the loop over portfolio.iterrows() (lines 35-78).
EnrichRow ==
    /\ pc = "enrich"
    /\ idx <= Len(portfolio)
    /\ \E hist \in HistoryOutcomes, info \in InfoOutcomes, fx \in RateOutcomes :
        LET ticker   == portfolio[idx].Symbol
            data     == IF hist = "ok" THEN History(ticker) ELSE EmptySeries
            currency == InfoCurrency(ticker)
            lookup   == NeedsConversion(currency)
            fields   == EnrichedFields(ticker, data, currency,
                                       lookup /\ fx = "ok")
        IN  IF hist = "raise"
            THEN \* etf.history raises (line 40)
                 /\ pc' = "aborted" /\ error' = "history raised"
                 /\ UNCHANGED <<etf_data, portfolio, idx, rate_log>>
            ELSE IF info = "raise"
            THEN \* etf.info raises (line 45), after the series was stored
                 /\ pc' = "aborted" /\ error' = "info raised"
                 /\ etf_data' = (ticker :> data) @@ etf_data
                 /\ UNCHANGED <<portfolio, idx, rate_log>>
            ELSE IF ~HasLast(data)
            THEN \* IndexError of iloc[-1] on an empty history (line 48)
                 /\ pc' = "aborted" /\ error' = "empty history"
                 /\ etf_data' = (ticker :> data) @@ etf_data
                 /\ UNCHANGED <<portfolio, idx, rate_log>>
            ELSE /\ etf_data' = (ticker :> data) @@ etf_data
                 /\ rate_log' = IF lookup
                                THEN rate_log \cup
                                     {RateRequest("enrich", idx, currency, fx)}
                                ELSE rate_log
                 /\ portfolio' = AssignBySymbol(portfolio, ticker, fields)
                 /\ idx' = idx + 1
                 /\ UNCHANGED <<pc, error>>
    /\ UNCHANGED <<csv_file, years_to_predict, years, enriched_csv,
                   predictions, predictions_csv, report>>

\* The loop ends: return portfolio, etf_data; then save_enriched_portfolio
\* writes the DataFrame as it is (lines 81-89).
SaveEnriched ==
    /\ pc = "enrich"
    /\ idx > Len(portfolio)
    /\ enriched_csv' = portfolio
    /\ pc' = "predict"
    /\ idx' = 1
    /\ UNCHANGED <<error, csv_file, years_to_predict, years, portfolio,
                   etf_data, predictions, predictions_csv, report, rate_log>>

\* ------------------------------------------------------- predict_sarima
\* pd.to_datetime(index): an index of date strings is parsed into a
\* DatetimeIndex, a DatetimeIndex comes back as it is.
ToDatetime(index) == IF index = "object" THEN "DatetimeIndex" ELSE index

\* series.index = pd.to_datetime(series.index) (line 96): series is the
\* object the store holds, so the assignment writes into the store.  The
\* later series = series.asfreq('D') and fillna rebind the local name only.
AssignDatetimeIndex(store, ticker) ==
    [store EXCEPT ![ticker].index = ToDatetime(@)]

\* results.forecast(steps=steps): a sequence of steps values.  The fit is a
\* black box; the value it gives for period t (1-based) is a number
\* determined by the series and by t, different for different t.
Forecast(series, steps) == [len |-> steps, base |-> series.last]
ForecastValue(fc, t) == fc.base * 10000 + t

\* forecast.iloc[k]: Python positional indexing.  k is valid from -len to
\* len - 1, and a negative k counts from the end; any other k raises
\* IndexError.
IlocValid(fc, k) == -fc.len <= k /\ k < fc.len
Iloc(fc, k) == ForecastValue(fc, (IF k < 0 THEN k + fc.len ELSE k) + 1)

\* ----------------------------------------------------- predict_portfolio
\* steps = int(years * 365)
Steps == IntPeriods(years)

\* int(y * 365) - 1: the position forecast.iloc is asked for.
HorizonOffset(y) == IntPeriods(y) - 1

\* pred_dict (lines 137-142) with the conversion of lines 147-157 applied:
\* 'today' and every '<y> years' entry are multiplied by the same rate.
\* est[k] is the entry '<YEARS_TO_PREDICT[k]> years'.
PredDict(index, ticker, series, fc, rate) ==
    [Index  |-> index,
     Symbol |-> ticker,
     today  |-> Mul(series.last, rate),
     est    |-> [k \in DOMAIN years_to_predict |->
                    Mul(Iloc(fc, HorizonOffset(years_to_predict[k])), rate)]]

\* One iteration of the loop over portfolio.iterrows() (lines 121-161).
\* The DataFrame index of row idx is idx - 1.
PredictRow ==
    /\ pc = "predict"
    /\ idx <= Len(portfolio)
    /\ \E fit \in FitOutcomes, info \in InfoOutcomes, fx \in RateOutcomes :
        LET ticker   == portfolio[idx].Symbol
            series   == etf_data[ticker]
            fc       == Forecast(series, Steps)
            currency == IF info = "ok" THEN InfoCurrency(ticker) ELSE "USD"
            lookup   == NeedsConversion(currency)
            rate     == IF lookup /\ fx = "ok" THEN Rate(currency) ELSE 1
        IN  IF ticker \notin DOMAIN etf_data
            THEN \* print("No data found for ticker")
                 /\ idx' = idx + 1
                 /\ UNCHANGED <<pc, error, predictions, rate_log>>
            ELSE IF fit = "raise"
            THEN \* SARIMAX(...).fit or forecast raises (line 125)
                 /\ pc' = "aborted" /\ error' = "model fit raised"
                 /\ UNCHANGED <<idx, predictions, rate_log>>
            ELSE IF \E k \in DOMAIN years_to_predict :
                        ~IlocValid(fc, HorizonOffset(years_to_predict[k]))
            THEN \* IndexError of forecast.iloc (line 141)
                 /\ pc' = "aborted" /\ error' = "forecast index out of bounds"
                 /\ UNCHANGED <<idx, predictions, rate_log>>
            ELSE /\ predictions' =
                        Append(predictions,
                               PredDict(idx - 1, ticker, series, fc, rate))
                 /\ rate_log' = IF lookup
                                THEN rate_log \cup
                                     {RateRequest("predict", idx, currency, fx)}
                                ELSE rate_log
                 /\ idx' = idx + 1
                 /\ UNCHANGED <<pc, error>>
    /\ etf_data' = IF portfolio[idx].Symbol \in DOMAIN etf_data
                   THEN AssignDatetimeIndex(etf_data, portfolio[idx].Symbol)
                   ELSE etf_data
    /\ UNCHANGED <<csv_file, years_to_predict, years, portfolio,
                   enriched_csv, predictions_csv, report>>

\* ------------------------------------------------------- save_predictions
\* A join on the symbol instead of the row index.
JoinMatchesBySymbol(left, i, right) ==
    SelectSeq(right, LAMBDA p : p.Symbol = left[i].Symbol)

\* merge(left_index=True, right_on='Index'): the rows of df_predictions that
\* join the portfolio row at position i (index label i - 1).
JoinMatches(left, i, right) == SelectSeq(right, LAMBDA p : p.Index = i - 1)

\* The columns a missing match leaves NaN (how='left').
NoPrediction == [today |-> NaN, est |-> [k \in DOMAIN years_to_predict |-> NaN]]

\* One output row: the portfolio row with 'today' and the '<y> years' columns.
JoinRow(l, p) == l @@ [today |-> p.today, est |-> p.est]

\* The left merge: the left rows in order, each once per matching right row,
\* or once with NaN when none matches.
RECURSIVE LeftMerge(_, _, _)
LeftMerge(left, right, i) ==
    IF i > Len(left) THEN <<>>
    ELSE LET m == JoinMatches(left, i, right)
             rows == IF m = <<>> THEN << JoinRow(left[i], NoPrediction) >>
                     ELSE [k \in DOMAIN m |-> JoinRow(left[i], m[k])]
         IN  rows \o LeftMerge(left, right, i + 1)

\* The loop of predict_portfolio ends (return predictions), then
\* save_predictions (lines 165-182).  pd.DataFrame([]) has no columns, so
\* selecting 'Index' from it raises KeyError.
SavePredictions ==
    /\ pc = "predict"
    /\ idx > Len(portfolio)
    /\ IF predictions = <<>>
       THEN /\ pc' = "aborted" /\ error' = "no predictions"
            /\ UNCHANGED predictions_csv
       ELSE /\ predictions_csv' = LeftMerge(portfolio, predictions, 1)
            /\ pc' = "visualize"
            /\ UNCHANGED error
    /\ UNCHANGED <<csv_file, years_to_predict, years, portfolio, etf_data, idx,
                   enriched_csv, predictions, report, rate_log>>

\* --------------------------------------------------- visualize_statistics
\* Series.sum() and groupby().sum(): NaN cells are skipped.
RECURSIVE NanSum(_)
NanSum(xs) ==
    IF xs = <<>> THEN 0
    ELSE (IF Head(xs) = NaN THEN 0 ELSE Head(xs)) + NanSum(Tail(xs))

\* Lines 194-196: the per-row totals.
RowTotals(df) ==
    [i \in DOMAIN df |->
        [Symbol      |-> df[i].Symbol,
         Quantity    |-> df[i].Quantity,
         Total_Today |-> Mul(df[i].Quantity, df[i].today),
         Total_Years |-> [k \in DOMAIN years_to_predict |->
                            Mul(df[i].Quantity, df[i].est[k])]]]

\* groupby('Symbol').agg('first'): each symbol keeps its first row only.
GroupedFirst(rows) ==
    LET syms == { rows[i].Symbol : i \in DOMAIN rows }
        of(s) == SelectSeq(rows, LAMBDA r : r.Symbol = s)
    IN  [s \in syms |->
            [Quantity    |-> of(s)[1].Quantity,
             Total_Today |-> of(s)[1].Total_Today,
             Total_Years |-> of(s)[1].Total_Years]]

\* Lines 199-203: groupby('Symbol').agg(sum), one row per symbol.
Grouped(rows) ==
    LET syms == { rows[i].Symbol : i \in DOMAIN rows }
        of(s) == SelectSeq(rows, LAMBDA r : r.Symbol = s)
    IN  [s \in syms |->
            [Quantity    |-> NanSum([i \in DOMAIN of(s) |-> of(s)[i].Quantity]),
             Total_Today |-> NanSum([i \in DOMAIN of(s) |-> of(s)[i].Total_Today]),
             Total_Years |-> [k \in DOMAIN years_to_predict |->
                 NanSum([i \in DOMAIN of(s) |-> of(s)[i].Total_Years[k]])]]]

\* A column of the grouped table summed over its rows: column 0 is
\* 'Total Today', column k >= 1 is 'Total <YEARS_TO_PREDICT[k]> years'.
RECURSIVE SumColumn(_, _, _)
SumColumn(g, syms, k) ==
    IF syms = {} THEN 0
    ELSE LET s == CHOOSE x \in syms : TRUE
             v == IF k = 0 THEN g[s].Total_Today ELSE g[s].Total_Years[k]
         IN  (IF v = NaN THEN 0 ELSE v) + SumColumn(g, syms \ {s}, k)

\* Lines 209-210: table_data.sum(), the 'Total' row.
TotalRow(g) ==
    [Total_Today |-> SumColumn(g, DOMAIN g, 0),
     Total_Years |-> [k \in DOMAIN years_to_predict |->
                        SumColumn(g, DOMAIN g, k)]]

\* visualize_statistics on predictions.csv as read back (lines 239-240,
\* 193-213).  report holds the numbers of table_data, before lines 216-217
\* format them for printing.
VisualizeStatistics ==
    /\ pc = "visualize"
    /\ LET rows == RowTotals(predictions_csv)
           g    == Grouped(rows)
       IN  report' = [rows |-> rows, grouped |-> g, total |-> TotalRow(g)]
    /\ pc' = "done"
    /\ UNCHANGED <<error, csv_file, years_to_predict, years, portfolio,
                   etf_data, idx, enriched_csv, predictions, predictions_csv,
                   rate_log>>

\* ------------------------------------------------------ the specification
NoReport == [rows |-> <<>>, grouped |-> <<>>, total |-> <<>>]

InitRun ==
    /\ pc = "start"
    /\ error = ""
    /\ portfolio = <<>>
    /\ etf_data = <<>>
    /\ idx = 0
    /\ enriched_csv = <<>>
    /\ predictions = <<>>
    /\ predictions_csv = <<>>
    /\ report = NoReport
    /\ rate_log = {}

\* A run of __main__ on a holdings table, with a YEARS_TO_PREDICT list and
\* the years the forecasts are fitted for.
Init ==
    /\ InitRun
    /\ csv_file \in PlainTables
    /\ years_to_predict \in YearsLists
    /\ years \in FitYears(years_to_predict)

Next ==
    \/ ReadAndNormalize
    \/ EnrichRow
    \/ SaveEnriched
    \/ PredictRow
    \/ SavePredictions
    \/ VisualizeStatistics

Spec == Init /\ [][Next]_vars

\* read_and_normalize_portfolio alone, on the holdings tables that have a
\* Weight column.
InitWeights ==
    /\ InitRun
    /\ csv_file \in WeightedTables
    /\ years_to_predict = << Yr(1, 1), Yr(5, 1) >>
    /\ years = Yr(5, 1)

SpecWeights == InitWeights /\ [][ReadAndNormalize]_vars

\* ================================================================ claims
\* Helpers of the claims' formulas.

\* The run got past save_predictions.
Saved == pc \in {"visualize", "done"}

\* The exceptions that end the run inside fetch_and_enrich_etf_data.
EnrichErrors == {"history raised", "info raised", "empty history"}

\* How many rows the loop of fetch_and_enrich_etf_data has processed.
EnrichedCount ==
    IF pc = "start" THEN 0
    ELSE IF pc = "enrich" \/ (pc = "aborted" /\ error \in EnrichErrors)
    THEN idx - 1
    ELSE Len(portfolio)

\* The last processed row that holds the symbol of row j: the iteration whose
\* assignment row j shows.
LastEnrichedRowOf(j) ==
    CHOOSE k \in 1..EnrichedCount :
        /\ portfolio[k].Symbol = portfolio[j].Symbol
        /\ \A m \in 1..EnrichedCount :
              portfolio[m].Symbol = portfolio[j].Symbol => m <= k

IsEnriched(j) ==
    \E k \in 1..EnrichedCount : portfolio[k].Symbol = portfolio[j].Symbol

\* The forecast values a pred_dict holds before any conversion.
RawEstimates(p) ==
    [k \in DOMAIN years_to_predict |->
        Iloc(Forecast(etf_data[p.Symbol], Steps),
             HorizonOffset(years_to_predict[k]))]

Scaled(f, rate) == [k \in DOMAIN f |-> Mul(f[k], rate)]

\* ------------------------------------------------------------------- C1
\* C1: once save_predictions has written the predictions table, the table
\* has exactly one row per holding of the input, in the input order, and row
\* i carries the 'today' and '<N> years' values of the pred_dict computed for
\* row index i (values of the series of row i's own symbol); rows that share
\* a symbol are neither merged nor multiplied.
C1_OneRowPerHolding ==
    Saved =>
        /\ Len(predictions_csv) = Len(csv_file)
        /\ \A i \in DOMAIN csv_file :
            /\ predictions_csv[i].Symbol = csv_file[i].Symbol
            /\ predictions_csv[i].Quantity = csv_file[i].Quantity
            /\ predictions[i].Index = i - 1
            /\ predictions_csv[i].today = predictions[i].today
            /\ predictions_csv[i].est = predictions[i].est
            /\ LET s == etf_data[csv_file[i].Symbol]
                   r == Rate(InfoCurrency(csv_file[i].Symbol))
               IN  predictions_csv[i].today \in {s.last, Mul(s.last, r)}

\* The holdings AAA, AAA, BBB (two lots of one symbol) reached the report.
C1_Witness ==
    /\ pc = "done"
    /\ Len(csv_file) = 3
    /\ csv_file[1].Symbol = "AAA" /\ csv_file[2].Symbol = "AAA"
    /\ csv_file[3].Symbol = "BBB"
    /\ csv_file[1].Quantity # csv_file[2].Quantity
    /\ Len(predictions_csv) = 3

\* ------------------------------------------------------------------- C2
\* C2: a failure confined to one instrument (its series fetch raises or
\* returns an empty history, or its model fit raises) never ends the run:
\* the pipeline goes on for the other instruments.
C2_FailureNeverAborts ==
    ~(pc = "aborted"
        /\ error \in {"history raised", "empty history", "model fit raised"})

\* ------------------------------------------------------------------- C3
\* C3: a failed spot-rate lookup does not end the run, and it leaves the
\* price-valued fields unconverted as a whole: an enriched row holds
\* Last_Close, Current Price and MA50 either all multiplied by the rate (the
\* lookup of the iteration that wrote the row succeeded) or all unconverted
\* (it failed); a pred_dict holds 'today' and every '<N> years' value either
\* all multiplied by the rate (its lookup succeeded) or all unconverted (it
\* failed); and the row of a failed lookup is still enriched, or predicted.
C3_ConversionAllOrNothing ==
    /\ \A j \in DOMAIN portfolio :
        (IsEnriched(j) /\ InfoCurrency(portfolio[j].Symbol) # "USD") =>
            LET row == portfolio[j]
                s == History(row.Symbol)
                r == Rate(row.Currency)
                k == LastEnrichedRowOf(j)
                raw == /\ row.Last_Close = s.last
                       /\ row.Current_Price = s.last
                       /\ row.MA50 = s.ma50
                cvt == /\ row.Last_Close = Mul(s.last, r)
                       /\ row.Current_Price = Mul(s.last, r)
                       /\ row.MA50 = Mul(s.ma50, r)
            IN  /\ RateRequest("enrich", k, row.Currency, "fail") \in rate_log
                    => raw
                /\ RateRequest("enrich", k, row.Currency, "ok") \in rate_log
                    => cvt
                /\ raw \/ cvt
    /\ \A n \in DOMAIN predictions :
        LET p == predictions[n]
            s == etf_data[p.Symbol]
            c == InfoCurrency(p.Symbol)
            raw == p.today = s.last /\ p.est = RawEstimates(p)
            cvt == /\ p.today = Mul(s.last, Rate(c))
                   /\ p.est = Scaled(RawEstimates(p), Rate(c))
        IN  /\ RateRequest("predict", p.Index + 1, c, "fail") \in rate_log
                => raw
            /\ RateRequest("predict", p.Index + 1, c, "ok") \in rate_log
                => cvt
            /\ raw \/ cvt
    /\ \A q \in rate_log :
        q.outcome = "fail" =>
            IF q.stage = "enrich"
            THEN q.row <= EnrichedCount /\ portfolio[q.row].Currency = q.currency
            ELSE \E n \in DOMAIN predictions : predictions[n].Index = q.row - 1

\* A run that finished although a rate lookup failed in the enrichment of a
\* row and one failed in the prediction of a row, while another succeeded.
C3_Witness ==
    /\ pc = "done"
    /\ \E q \in rate_log : q.stage = "enrich" /\ q.outcome = "fail"
    /\ \E q \in rate_log : q.stage = "predict" /\ q.outcome = "fail"
    /\ \E q \in rate_log : q.outcome = "ok"

\* ------------------------------------------------------------------- C4
\* The columns of an enriched row that are not prices.
NonPriceFields(f) ==
    [Volatility |-> f.Volatility, Expense_Ratio |-> f.Expense_Ratio,
     Currency |-> f.Currency]

\* C4: for an enriched row of a non-USD instrument, the row written after a
\* failed rate lookup differs from the row written after a successful one
\* (same holding, same series) in a column other than the price columns.
C4_FallbackDistinguishable ==
    \A j \in DOMAIN portfolio :
        (IsEnriched(j) /\ portfolio[j].Currency # "USD") =>
            LET t == portfolio[j].Symbol
                afterFailure == EnrichedFields(t, History(t),
                                               portfolio[j].Currency, FALSE)
                afterSuccess == EnrichedFields(t, History(t),
                                               portfolio[j].Currency, TRUE)
            IN  NonPriceFields(afterFailure) # NonPriceFields(afterSuccess)

\* ------------------------------------------------------------------- C5
\* C5: for a holding whose instrument is priced in USD no spot-rate request
\* is ever issued, by the enrichment or by the prediction, and its
\* Last_Close, Current Price, MA50, 'today' and '<N> years' values are the
\* unconverted ones.
C5_BaseCurrencyNoLookup ==
    /\ \A q \in rate_log :
        /\ q.currency # "USD"
        /\ InfoCurrency(portfolio[q.row].Symbol) # "USD"
    /\ \A j \in DOMAIN portfolio :
        (IsEnriched(j) /\ InfoCurrency(portfolio[j].Symbol) = "USD") =>
            LET s == History(portfolio[j].Symbol)
            IN  /\ portfolio[j].Currency = "USD"
                /\ portfolio[j].Last_Close = s.last
                /\ portfolio[j].Current_Price = s.last
                /\ portfolio[j].MA50 = s.ma50
    /\ \A n \in DOMAIN predictions :
        InfoCurrency(predictions[n].Symbol) = "USD" =>
            /\ predictions[n].today = etf_data[predictions[n].Symbol].last
            /\ predictions[n].est = RawEstimates(predictions[n])

\* A finished run over a table that holds a USD instrument and a EUR one,
\* the EUR one converted by both stages.
C5_Witness ==
    /\ pc = "done"
    /\ \E i \in DOMAIN csv_file : InfoCurrency(csv_file[i].Symbol) = "USD"
    /\ \E q \in rate_log : q.outcome = "ok" /\ q.stage = "enrich"
    /\ \E q \in rate_log : q.outcome = "ok" /\ q.stage = "predict"

\* ------------------------------------------------------------------- C6
\* round(y * 365): Python rounds a tie to the even neighbour.
RoundPeriods(y) ==
    LET n == y.num * DaysPerYear
        q == n \div y.den
        r == n % y.den
    IN  IF 2 * r < y.den THEN q
        ELSE IF 2 * r > y.den THEN q + 1
        ELSE IF q % 2 = 0 THEN q ELSE q + 1

\* C6: the estimate a pred_dict holds for a requested horizon y is the
\* forecast value at zero-based offset round(y * 365) - 1 (in USD where it
\* was converted), and the offsets used for YEARS_TO_PREDICT, which is in
\* increasing order, are strictly increasing.
C6_OffsetIsRounded ==
    /\ \A n \in DOMAIN predictions : \A k \in DOMAIN years_to_predict :
        LET p  == predictions[n]
            fc == Forecast(etf_data[p.Symbol], Steps)
            v  == ForecastValue(fc, (RoundPeriods(years_to_predict[k]) - 1) + 1)
        IN  p.est[k] \in {v, Mul(v, Rate(InfoCurrency(p.Symbol)))}
    /\ predictions # <<>> =>
        \A k, l \in DOMAIN years_to_predict :
            k < l => HorizonOffset(years_to_predict[k])
                        < HorizonOffset(years_to_predict[l])

\* ------------------------------------------------------------------- C7
\* C7: no pred_dict holds an estimate for a horizon whose offset is not an
\* index 0..L-1 of the forecast of length L: such a horizon ends the run
\* before a pred_dict is made.
C7_NoEstimateOutOfRange ==
    predictions # <<>> =>
        \A k \in DOMAIN years_to_predict :
            HorizonOffset(years_to_predict[k]) \in 0..(Steps - 1)

\* ------------------------------------------------------------------- C8
\* The enrichment that wrote row i converted it; the prediction of row i
\* converted it.
EnrichConverted(i) ==
    RateRequest("enrich", LastEnrichedRowOf(i), portfolio[i].Currency, "ok")
        \in rate_log
PredictConverted(i) ==
    RateRequest("predict", i, portfolio[i].Currency, "ok") \in rate_log

\* The column of per-row totals: 0 is 'Total Today', k >= 1 a horizon.
RowColumn(rows, k) ==
    [i \in DOMAIN rows |->
        IF k = 0 THEN rows[i].Total_Today ELSE rows[i].Total_Years[k]]

MinHistory == 2 * SeasonalPeriod

\* C9: a series with fewer than 24 observations gets no forecast: no
\* pred_dict with forecast values exists for it, it does not end the run, and
\* its row of the predictions table has NaN forecast fields.
C9_NoForecastOnShortHistory ==
    /\ \A n \in DOMAIN predictions :
        etf_data[predictions[n].Symbol].n >= MinHistory
    /\ (pc = "aborted" /\ error = "model fit raised") =>
        etf_data[portfolio[idx].Symbol].n >= MinHistory
    /\ Saved =>
        \A i \in DOMAIN predictions_csv :
            etf_data[predictions_csv[i].Symbol].n < MinHistory =>
                /\ predictions_csv[i].today = NaN
                /\ \A k \in DOMAIN years_to_predict :
                    predictions_csv[i].est[k] = NaN

\* ------------------------------------------------------------------ C10
\* The exact sum of a sequence of finite cells, as a fraction.
RECURSIVE FracSum(_)
FracSum(cells) ==
    IF cells = <<>> THEN [num |-> 0, den |-> 1]
    ELSE LET h == Head(cells)
             t == FracSum(Tail(cells))
         IN  [num |-> h.num * t.den + t.num * h.den, den |-> h.den * t.den]

\* The Weight column is finite and sums to 1.
SumsToOne(df) ==
    /\ \A i \in DOMAIN df : df[i].Weight.kind = "fin"
    /\ LET t == FracSum([i \in DOMAIN df |-> df[i].Weight])
       IN  t.den # 0 /\ t.num = t.den

\* C10 as stated: for every holdings table with a Weight column, the
\* normalized weights sum to 1, also when the weights sum to zero.
C10_WeightsSumToOne ==
    (pc = "enrich" /\ HasWeightColumn(csv_file)) => SumsToOne(portfolio)

\* C10, amended: for every holdings table with a Weight column whose weights
\* do not sum to zero, each normalized weight is the original weight divided
\* by the sum of the original weights, and the normalized weights sum to 1.
C10_NonzeroWeightsSumToOne ==
    (pc = "enrich" /\ HasWeightColumn(csv_file) /\ WeightSum(csv_file) # 0) =>
        /\ SumsToOne(portfolio)
        /\ \A i \in DOMAIN portfolio :
            portfolio[i].Weight
                = Fin(csv_file[i].Weight.num, WeightSum(csv_file))

\* A normalized table of three different weights whose sum is neither 0 nor 1.
C10_Witness ==
    /\ pc = "enrich"
    /\ Len(csv_file) = 3
    /\ csv_file[1].Weight # csv_file[2].Weight
    /\ csv_file[2].Weight # csv_file[3].Weight
    /\ WeightSum(csv_file) \notin {0, 1}
    /\ portfolio[1].Weight.kind = "fin"

\* ------------------------------------------------------------------ C11
\* C11: once a symbol's series is in the store, no step of the run changes
\* it: every step leaves each stored symbol in the store with the series it
\* had before the step, so the store at the end of the run holds, for every
\* symbol, the series that was first placed there.
C11_StoreReadOnly ==
    [][\A s \in DOMAIN etf_data :
            s \in DOMAIN etf_data' /\ etf_data'[s] = etf_data[s]]_vars
====
